---- MODULE Spec2Model ----
(***************************************************************************)
(* Model of the chunking pipeline of src/chunking.py: DocumentChunker      *)
(* construction (path validation, converter initialisation, tokenizer      *)
(* creation), chunk_documents (per-document hybrid chunking, fusion of     *)
(* short chunks, markdown re-splitting) and the two pure stages fuse_texts *)
(* and the regex cleanup of chunk_markdowns.                               *)
(*                                                                         *)
(* A text is a sequence of symbols.  A symbol is one character ("-", " ",  *)
(* "|", "\n", the one-letter word "a") or an opaque block of prose that    *)
(* holds no dash, pipe or white space ("S10", "L131", "L200", "L201": the  *)
(* number is the block's token count).  String concatenation is \o.        *)
(***************************************************************************)
EXTENDS Integers, Sequences, FiniteSets, TLC

VARIABLES
    \* the DocumentChunker instance and the call that constructed it
    constructed,            \* "no" | "ok" | "raised"
    raised,                 \* the error __init__ raised, or "none"
    arg_paths,              \* __init__'s document_paths argument
    arg_docling_model_path, \* __init__'s docling_model_path argument
    model_env,              \* what is found at tokenizer_model_name
    document_filetype, document_paths, docling_model_path,
    converter, tokenizer,
    effects,                \* heavy side effects performed so far, in order
    \* chunk_documents
    runs,                   \* completed chunk_documents calls
    converted,              \* what convert_all yields for document_paths
    doc_log,                \* the documents handed to the HybridChunker
    all_chunks,             \* the list the last call returned
    run_raised,             \* the last call raised instead of returning
    \* fuse_texts called on its own
    text_list, short_length_threshold, fused_texts, fuse_done,
    \* the regex cleanup called on its own
    regex_in, regex_out

vars == <<constructed, raised, arg_paths, arg_docling_model_path, model_env,
          document_filetype, document_paths, docling_model_path, converter,
          tokenizer, effects, runs, converted, doc_log, all_chunks, run_raised,
          text_list, short_length_threshold, fused_texts, fuse_done,
          regex_in, regex_out>>

chunkerVars == <<constructed, raised, arg_paths, arg_docling_model_path,
                 model_env, document_filetype, document_paths,
                 docling_model_path, converter, tokenizer, effects, runs,
                 converted, doc_log, all_chunks, run_raised>>
fuseVars == <<text_list, short_length_threshold, fused_texts, fuse_done>>
regexVars == <<regex_in, regex_out>>

(***************************************************************************)
(* Bounds of the model.                                                    *)
(***************************************************************************)
MaxDocs == 3        \* longest document_paths list
MaxRuns == 2        \* chunk_documents calls on one instance
MaxChunks == 3      \* longest text_list given to fuse_texts on its own
MaxTextLen == 2     \* longest text in such a text_list
MaxThreshold == 2   \* largest short_length_threshold tried on such a list
MaxRegexLen == 6    \* longest text given to the regex cleanup on its own

(***************************************************************************)
(* Program constants.                                                      *)
(***************************************************************************)
short_length_threshold_default == 130
chunk_documents_threshold == 200
chunk_word_count == 1024

None == "None"
SUPPORTED_FILETYPES == {".pdf", ".md"}

SeqsUpTo(S, n) == UNION {[1..k -> S] : k \in 0..n}

(***************************************************************************)
(* Token Estimator.                                                        *)
(***************************************************************************)
num_tokens_from_words(num_words) == (num_words * 13) \div 10
num_chars_from_tokens(num_tokens) == num_tokens * 4

(***************************************************************************)
(* Tokenizer Adapter: len(tokenizer.tokenize(text)).  The tokenizer is an  *)
(* external pretrained model; here every word character is one token, a    *)
(* block holds the tokens its name gives and white space holds none.       *)
(***************************************************************************)
SymbolTokens(sym) ==
    CASE sym = "a" -> 1
      [] sym = "-" -> 1
      [] sym = "|" -> 1
      [] sym = "S10" -> 10
      [] sym = "L131" -> 131
      [] sym = "L200" -> 200
      [] sym = "L201" -> 201
      [] OTHER -> 0

RECURSIVE TokensFrom(_, _)
TokensFrom(text, i) ==
    IF i > Len(text) THEN 0 ELSE SymbolTokens(text[i]) + TokensFrom(text, i + 1)

get_token_count(text) == TokensFrom(text, 1)

(***************************************************************************)
(* Fusion Stage: fuse_texts.                                               *)
(***************************************************************************)
BlankLine == <<"\n", "\n">>

\* the loop body as the specification words it: only a chunk above the
\* threshold is remembered as the long text
FuseStepOnlyLongRemembered(st, text, threshold) ==
    IF get_token_count(text) <= threshold /\ st.previous_long_text # <<>>
    THEN [st EXCEPT !.fused_texts[Len(st.fused_texts)] = @ \o BlankLine \o text]
    ELSE [fused_texts |-> Append(st.fused_texts, text),
          previous_long_text |->
              IF get_token_count(text) > threshold THEN text
              ELSE st.previous_long_text]

\* one iteration of the loop over text_list
FuseStep(st, text, threshold) ==
    IF get_token_count(text) <= threshold /\ st.previous_long_text # <<>>
    THEN [st EXCEPT !.fused_texts[Len(st.fused_texts)] = @ \o BlankLine \o text]
    ELSE [fused_texts |-> Append(st.fused_texts, text),
          previous_long_text |-> text]

RECURSIVE FuseFrom(_, _, _, _)
FuseFrom(st, texts, i, threshold) ==
    IF i > Len(texts) THEN st
    ELSE FuseFrom(FuseStep(st, texts[i], threshold), texts, i + 1, threshold)

fuse_texts(texts, threshold) ==
    FuseFrom([fused_texts |-> <<>>, previous_long_text |-> <<>>],
             texts, 1, threshold).fused_texts

(***************************************************************************)
(* Markdown Re-splitter: the regex cleanup and chunk_markdowns.            *)
(***************************************************************************)
RECURSIVE RunLength(_, _, _)
RunLength(s, i, ch) ==
    IF i <= Len(s) /\ s[i] = ch THEN 1 + RunLength(s, i + 1, ch) ELSE 0

\* re.sub(ch{2,}\|, ch|, s) from position i on: leftmost match, greedy run,
\* matches do not overlap
RECURSIVE SubRunBeforePipe(_, _, _)
SubRunBeforePipe(s, i, ch) ==
    IF i > Len(s) THEN <<>>
    ELSE LET k == RunLength(s, i, ch) IN
         IF k >= 2 /\ i + k <= Len(s) /\ s[i + k] = "|"
         THEN <<ch, "|">> \o SubRunBeforePipe(s, i + k + 1, ch)
         ELSE <<s[i]>> \o SubRunBeforePipe(s, i + 1, ch)

\* the same with the pattern ch ch \| : exactly two before the pipe
RECURSIVE SubPairBeforePipe(_, _, _)
SubPairBeforePipe(s, i, ch) ==
    IF i > Len(s) THEN <<>>
    ELSE IF i + 2 <= Len(s) /\ s[i] = ch /\ s[i + 1] = ch /\ s[i + 2] = "|"
         THEN <<ch, "|">> \o SubPairBeforePipe(s, i + 3, ch)
         ELSE <<s[i]>> \o SubPairBeforePipe(s, i + 1, ch)

DashSubPairOnly(docs) == SubPairBeforePipe(docs, 1, "-")

\* re.sub(r"-{2,}\|", "-|", docs)
DashSub(docs) == SubRunBeforePipe(docs, 1, "-")

\* re.sub(r"\  +\|", " |", docs)
SpaceSub(docs) == SubRunBeforePipe(docs, 1, " ")

RegexCleanup(docs) == SpaceSub(DashSub(docs))

IsSpace(sym) == sym \in {" ", "\n"}

RECURSIVE LStrip(_)
LStrip(s) == IF s # <<>> /\ IsSpace(Head(s)) THEN LStrip(Tail(s)) ELSE s

RECURSIVE RStrip(_)
RStrip(s) ==
    IF s # <<>> /\ IsSpace(s[Len(s)]) THEN RStrip(SubSeq(s, 1, Len(s) - 1))
    ELSE s

Strip(s) == RStrip(LStrip(s))

SymbolChars(sym) ==
    IF sym \in {"S10", "L131", "L200", "L201"}
    THEN num_chars_from_tokens(SymbolTokens(sym)) ELSE 1

RECURSIVE CharsFrom(_, _)
CharsFrom(text, i) ==
    IF i > Len(text) THEN 0 ELSE SymbolChars(text[i]) + CharsFrom(text, i + 1)

CharLen(text) == CharsFrom(text, 1)

\* text_splitter.create_documents([docs]) for a text within chunk_size: the
\* pieces are merged back into one document, stripped, and dropped when empty
create_documents(docs) ==
    IF Strip(docs) = <<>> THEN <<>> ELSE <<Strip(docs)>>

RECURSIVE MarkdownsFrom(_, _)
MarkdownsFrom(documents, i) ==
    IF i > Len(documents) THEN <<>>
    ELSE create_documents(RegexCleanup(documents[i]))
         \o MarkdownsFrom(documents, i + 1)

chunk_markdowns(documents, chunk_size) == MarkdownsFrom(documents, 1)

(***************************************************************************)
(* DocumentChunker.__init__ and what it calls.  A path is modelled by its  *)
(* suffix, the only part of it the constructor reads.                      *)
(***************************************************************************)
\* split_docs_by_filetype once every suffix is known to be supported
split_docs_by_filetype(paths) ==
    [filetype \in {paths[i] : i \in DOMAIN paths} |->
        SelectSeq(paths, LAMBDA p : p = filetype)]

\* the checks without the one on the number of document types
ValidationErrorNoTypeCount(paths) ==
    IF paths = <<>> THEN "Provided empty list of documents"
    ELSE IF \E i \in DOMAIN paths : paths[i] \notin SUPPORTED_FILETYPES
         THEN "Provided unsupported filetype"
         ELSE "none"

\* the ValueError the first lines of __init__ raise, or "none"
ValidationError(paths) ==
    IF paths = <<>> THEN "Provided empty list of documents"
    ELSE IF \E i \in DOMAIN paths : paths[i] \notin SUPPORTED_FILETYPES
         THEN "Provided unsupported filetype"
         ELSE IF Cardinality(DOMAIN split_docs_by_filetype(paths)) > 1
              THEN "Provided multiple document types"
              ELSE "none"

\* resolve_ocr_options: ocr_env names the first OCR backend that imports,
\* "tesseract", "easyocr" or "none"
resolve_ocr_options(ocr_env) ==
    IF ocr_env = "tesseract"
    THEN [effects |-> <<"TesseractOcrModel">>,
          ocr_options |-> "TesseractOcrOptions"]
    ELSE IF ocr_env = "easyocr"
         THEN [effects |-> <<"TesseractOcrModel", "EasyOcrModel">>,
               ocr_options |-> "EasyOcrOptions"]
         ELSE [effects |-> <<"TesseractOcrModel", "EasyOcrModel">>,
               ocr_options |-> None]

\* _init_docling_converter downloads the models when no path was given
DownloadNeeded(model_path) == model_path = None

init_docling_converter(model_path, ocr_env) ==
    LET ocr == resolve_ocr_options(ocr_env)
        path == IF DownloadNeeded(model_path) THEN "downloaded" ELSE model_path
    IN [effects |->
            (IF DownloadNeeded(model_path) THEN <<"download_models_hf">>
             ELSE <<>>)
            \o ocr.effects \o <<"DocumentConverter">>,
        docling_model_path |-> path,
        converter |-> [artifacts_path |-> path,
                       do_ocr |-> ocr.ocr_options # None,
                       ocr_options |-> ocr.ocr_options]]

\* create_tokenizer with a load attempted whatever the format
create_tokenizer_load_anyway(env) ==
    LET load == IF env.is_model_gguf /\ ~env.is_model_safetensors
                THEN "from_pretrained(model_dir, gguf_file)"
                ELSE "from_pretrained(model_path)"
    IN [effects |-> <<load>>,
        tokenizer |-> IF env.load = "ok" THEN load ELSE None,
        error |-> IF env.load = "ok" THEN "none" ELSE env.load]

\* create_tokenizer: env says what is_model_safetensors and is_model_gguf
\* answer for the path and how AutoTokenizer.from_pretrained ends
create_tokenizer(env) ==
    IF env.is_model_safetensors
    THEN [effects |-> <<"from_pretrained(model_path)">>,
          tokenizer |-> IF env.load = "ok" THEN "from_pretrained(model_path)"
                        ELSE None,
          error |-> IF env.load = "ok" THEN "none" ELSE env.load]
    ELSE IF env.is_model_gguf
         THEN [effects |-> <<"from_pretrained(model_dir, gguf_file)">>,
               tokenizer |-> IF env.load = "ok"
                             THEN "from_pretrained(model_dir, gguf_file)"
                             ELSE None,
               error |-> IF env.load = "ok" THEN "none" ELSE env.load]
         ELSE [effects |-> <<>>, tokenizer |-> None, error |-> "ValueError"]

PathLists == SeqsUpTo({".pdf", ".md", ".txt"}, MaxDocs)
ModelPaths == {None, "models/docling"}
OcrEnvs == {"tesseract", "easyocr", "none"}
ModelEnvs == [is_model_safetensors : BOOLEAN, is_model_gguf : BOOLEAN,
              load : {"ok", "OSError"}]

\* DocumentChunker(document_paths, tokenizer_model_name, docling_model_path)
Construct(paths, model_path, ocr_env, env) ==
    /\ constructed = "no"
    /\ arg_paths' = paths
    /\ arg_docling_model_path' = model_path
    /\ model_env' = env
    /\ UNCHANGED <<runs, converted, doc_log, all_chunks, run_raised>>
    /\ UNCHANGED <<fuseVars, regexVars>>
    /\ IF ValidationError(paths) # "none"
       THEN /\ constructed' = "raised"
            /\ raised' = ValidationError(paths)
            /\ UNCHANGED <<document_filetype, document_paths,
                           docling_model_path, converter, tokenizer, effects>>
       ELSE LET conv == init_docling_converter(model_path, ocr_env)
                tok == create_tokenizer(env)
            IN /\ document_filetype' = paths[1]
               /\ document_paths' = split_docs_by_filetype(paths)[paths[1]]
               /\ docling_model_path' = conv.docling_model_path
               /\ converter' = conv.converter
               /\ effects' = effects \o conv.effects \o tok.effects
               /\ tokenizer' = tok.tokenizer
               /\ raised' = tok.error
               /\ constructed' = IF tok.error = "none" THEN "ok" ELSE "raised"

(***************************************************************************)
(* chunk_documents.  convert_all yields one ConversionResult per path: its *)
(* status and what the HybridChunker does with its document (the raw       *)
(* chunks it serialises, or an exception).  The code reads only .document  *)
(* and .input.file of a result, so a failed conversion's document is       *)
(* whatever the converter left in it.                                      *)
(***************************************************************************)
Long200 == <<"L200">>
Long201 == <<"L201">>
Short10 == <<"S10">>
TableRow == <<"S10", " ", " ", "|", "-", "-", "|">>

Throws == [throws |-> TRUE, chunks |-> <<>>]
Yields(chunks) == [throws |-> FALSE, chunks |-> chunks]

\* a document's fused texts fit the character budget of the splitter
WithinBudget(outcome) ==
    \A j \in DOMAIN fuse_texts(outcome.chunks, chunk_documents_threshold) :
        CharLen(fuse_texts(outcome.chunks, chunk_documents_threshold)[j])
            <= num_chars_from_tokens(num_tokens_from_words(chunk_word_count))

Outcomes(S) == {outcome \in S : WithinBudget(outcome)}

ConversionResults ==
    [status : {"SUCCESS"},
     outcome : Outcomes({Throws, Yields(<<Long200, Short10, Long200>>),
                         Yields(<<Long201, Short10, Long201>>),
                         Yields(<<TableRow>>)})]
    \cup
    [status : {"FAILURE"},
     outcome : Outcomes({Throws, Yields(<<>>), Yields(<<Short10>>)})]

Batches(n) == [1..n -> ConversionResults]

\* the two results the specification of the instance's life draws from
PlainResults ==
    [status : {"SUCCESS"},
     outcome : Outcomes({Yields(<<Long201, Short10, Long201>>)})]
    \cup
    [status : {"FAILURE"}, outcome : Outcomes({Yields(<<>>)})]

PlainBatches(n) == [1..n -> PlainResults]

\* the except clause re-raising instead of logging
TryChunkReraises(outcome) ==
    [raised |-> outcome.throws, chunks |-> outcome.chunks]

\* the try block around chunker.chunk and chunker.serialize
TryChunk(outcome) ==
    [raised |-> FALSE,
     chunks |-> IF outcome.throws THEN <<>> ELSE outcome.chunks]

\* the loop over parsed_documents from document i on; acc holds all_chunks
\* and the log of the documents handed to the chunker
RECURSIVE ChunkFrom(_, _, _)
ChunkFrom(parsed_documents, i, acc) ==
    IF i > Len(parsed_documents) THEN acc
    ELSE LET conversion_result == parsed_documents[i]
             try == TryChunk(conversion_result.outcome)
             fused == fuse_texts(try.chunks, chunk_documents_threshold)
             num_tokens_per_doc == num_tokens_from_words(chunk_word_count)
             chunk_size == num_chars_from_tokens(num_tokens_per_doc)
             final_chunks == chunk_markdowns(fused, chunk_size)
             entry == [doc |-> i, fused_texts |-> fused,
                       final_chunks |-> final_chunks]
         IN IF try.raised
            THEN [raised |-> TRUE, all_chunks |-> <<>>,
                  log |-> Append(acc.log, [entry EXCEPT !.fused_texts = <<>>,
                                                        !.final_chunks = <<>>])]
            ELSE ChunkFrom(parsed_documents, i + 1,
                           [raised |-> FALSE,
                            all_chunks |-> acc.all_chunks \o final_chunks,
                            log |-> Append(acc.log, entry)])

chunk_documents(parsed_documents) ==
    ChunkFrom(parsed_documents, 1,
              [raised |-> FALSE, all_chunks |-> <<>>, log |-> <<>>])

ChunkDocumentsCore(batch) ==
    /\ constructed = "ok"
    /\ runs < MaxRuns
    /\ Len(batch) = Len(document_paths)
    /\ runs > 0 => batch = converted
    /\ converted' = batch
    /\ runs' = runs + 1
    /\ LET result == chunk_documents(batch)
       IN /\ doc_log' = result.log
          /\ all_chunks' = result.all_chunks
          /\ run_raised' = result.raised
    /\ UNCHANGED <<constructed, raised, arg_paths, arg_docling_model_path,
                   model_env, document_filetype, document_paths,
                   docling_model_path, converter, tokenizer>>
    /\ UNCHANGED <<fuseVars, regexVars>>

\* chunk_documents building the converter again on every call
ChunkDocumentsReinit(batch) ==
    /\ ChunkDocumentsCore(batch)
    /\ effects' = effects \o <<"DocumentConverter">>

\* self.chunk_documents(): the converter and the tokenizer are the ones the
\* constructor stored
ChunkDocuments(batch) ==
    /\ ChunkDocumentsCore(batch)
    /\ effects' = effects

(***************************************************************************)
(* fuse_texts and the regex cleanup called on their own.                   *)
(***************************************************************************)
FuseTexts ==
    /\ ~fuse_done
    /\ fused_texts' = fuse_texts(text_list, short_length_threshold)
    /\ fuse_done' = TRUE
    /\ UNCHANGED <<text_list, short_length_threshold>>
    /\ UNCHANGED <<chunkerVars, regexVars>>

\* the two substitutions applied to the text they produced last
ApplyCleanup ==
    /\ Len(regex_out) < 2
    /\ regex_out' = Append(regex_out,
                           RegexCleanup(IF regex_out = <<>> THEN regex_in
                                        ELSE regex_out[Len(regex_out)]))
    /\ UNCHANGED regex_in
    /\ UNCHANGED <<chunkerVars, fuseVars>>

(***************************************************************************)
(* Specifications.                                                         *)
(***************************************************************************)
ChunkerInit ==
    /\ constructed = "no"
    /\ raised = "none"
    /\ arg_paths = <<>>
    /\ arg_docling_model_path = None
    /\ model_env = None
    /\ document_filetype = None
    /\ document_paths = <<>>
    /\ docling_model_path = None
    /\ converter = None
    /\ tokenizer = None
    /\ effects = <<>>
    /\ runs = 0
    /\ converted = <<>>
    /\ doc_log = <<>>
    /\ all_chunks = <<>>
    /\ run_raised = FALSE

FuseIdle ==
    /\ text_list = <<>>
    /\ short_length_threshold = short_length_threshold_default
    /\ fused_texts = <<>>
    /\ fuse_done = TRUE

RegexIdle ==
    /\ regex_in = <<>>
    /\ regex_out = <<<<>>, <<>>>>

Init == ChunkerInit /\ FuseIdle /\ RegexIdle

Next ==
    \/ \E paths \in PathLists, model_path \in ModelPaths,
          ocr_env \in OcrEnvs, env \in ModelEnvs :
            Construct(paths, model_path, ocr_env, env)
    \/ \E batch \in PlainBatches(Len(document_paths)) :
            ChunkDocuments(batch)

Spec == Init /\ [][Next]_vars

\* one environment for the constructor, every conversion result for the run
NextChunking ==
    \/ \E paths \in PathLists :
            Construct(paths, None, "tesseract",
                      [is_model_safetensors |-> TRUE, is_model_gguf |-> FALSE,
                       load |-> "ok"])
    \/ \E batch \in Batches(Len(document_paths)) : ChunkDocuments(batch)

SpecChunking == Init /\ [][NextChunking]_vars

FuseTextSet == SeqsUpTo({"a", " "}, MaxTextLen)

InitFuse ==
    /\ ChunkerInit
    /\ RegexIdle
    /\ text_list \in SeqsUpTo(FuseTextSet, MaxChunks)
    /\ short_length_threshold \in 0..MaxThreshold
    /\ fused_texts = <<>>
    /\ fuse_done = FALSE

NextFuse == FuseTexts

SpecFuse == InitFuse /\ [][NextFuse]_vars

InitRegex ==
    /\ ChunkerInit
    /\ FuseIdle
    /\ regex_in \in SeqsUpTo({"-", " ", "|", "a"}, MaxRegexLen)
    /\ regex_out = <<>>

NextRegex == ApplyCleanup

SpecRegex == InitRegex /\ [][NextRegex]_vars

(***************************************************************************)
(* Properties.                                                             *)
(***************************************************************************)
Count(seq, e) == Cardinality({i \in DOMAIN seq : seq[i] = e})

IsPrefix(p, s) == Len(p) <= Len(s) /\ SubSeq(s, 1, Len(p)) = p

RECURSIVE JoinFrom(_, _)
JoinFrom(texts, i) ==
    IF i = Len(texts) THEN texts[i]
    ELSE texts[i] \o BlankLine \o JoinFrom(texts, i + 1)

\* "\n\n".join(texts) of a non-empty list
JoinBlankLine(texts) == JoinFrom(texts, 1)

\* the final chunks, from entry k on, of the logged documents in keep
RECURSIVE FinalChunksFrom(_, _, _)
FinalChunksFrom(log, k, keep) ==
    IF k > Len(log) THEN <<>>
    ELSE (IF log[k].doc \in keep THEN log[k].final_chunks ELSE <<>>)
         \o FinalChunksFrom(log, k + 1, keep)

InvalidPathList(paths) ==
    \/ paths = <<>>
    \/ \E i \in DOMAIN paths : paths[i] \notin {".pdf", ".md"}
    \/ \E i, j \in DOMAIN paths : paths[i] = ".pdf" /\ paths[j] = ".md"

TokenizerLoadEvents ==
    {"from_pretrained(model_path)", "from_pretrained(model_dir, gguf_file)"}

TokenizerLoads == SelectSeq(effects, LAMBDA e : e \in TokenizerLoadEvents)

\* C1: a constructor call with an empty list, a list holding an unsupported
\* suffix or a list holding both .pdf and .md raises its ValueError with no
\* side effect performed: no model download, no OCR probe, no converter, no
\* tokenizer load, and no conversion ever run on the instance.
C1_InvalidPathsFailBeforeSideEffects ==
    (constructed # "no" /\ InvalidPathList(arg_paths)) =>
        /\ constructed = "raised"
        /\ raised \in {"Provided empty list of documents",
                       "Provided unsupported filetype",
                       "Provided multiple document types"}
        /\ effects = <<>>
        /\ converter = None
        /\ tokenizer = None
        /\ runs = 0 /\ converted = <<>>

C1_Witness ==
    /\ constructed = "raised"
    /\ arg_paths = <<".pdf", ".md">>
    /\ raised = "Provided multiple document types"
    /\ effects = <<>>

\* C2: after chunk_documents, no document whose conversion status is FAILURE
\* was handed to the chunking, fusion and re-splitting stages, and the output
\* is exactly the final chunks of the successfully converted documents.
C2_FailedDocumentsExcluded ==
    runs > 0 =>
        /\ \A i \in DOMAIN converted :
              converted[i].status = "FAILURE" =>
                  \A k \in DOMAIN doc_log : doc_log[k].doc # i
        /\ all_chunks =
              FinalChunksFrom(doc_log, 1,
                              {d \in DOMAIN converted :
                                  converted[d].status = "SUCCESS"})

\* C3: when every chunk of a non-empty text_list has a token count at or
\* below the threshold, fuse_texts returns exactly one element, the chunks
\* joined by a blank line in their order.
C3_AllShortFuseToOne ==
    (/\ fuse_done
     /\ Len(text_list) >= 1
     /\ \A j \in DOMAIN text_list :
           get_token_count(text_list[j]) <= short_length_threshold)
        => fused_texts = <<JoinBlankLine(text_list)>>

\* C4: every element of the list fuse_texts returns is at index 1 (the first
\* position) or has a token count strictly above the threshold.
C4_FusedChunkInvariant ==
    fuse_done =>
        \A k \in DOMAIN fused_texts :
            k = 1 \/ get_token_count(fused_texts[k]) > short_length_threshold

\* C5 as stated: the fusion chunk_documents runs uses the threshold 130, so a
\* raw chunk above 130 tokens always opens a new fused chunk and the raw
\* chunks [200 tokens, 10 tokens, 200 tokens] fuse into two chunks.
C5_Threshold130 ==
    runs > 0 =>
        \A k \in DOMAIN doc_log :
            LET raw == converted[doc_log[k].doc].outcome.chunks
                fused == doc_log[k].fused_texts
            IN /\ Len(fused) >=
                      Cardinality({j \in DOMAIN raw :
                                      get_token_count(raw[j]) > 130})
               /\ raw = <<Long200, Short10, Long200>> =>
                      fused = <<Long200 \o BlankLine \o Short10, Long200>>

\* C5 amended: the fusion chunk_documents runs uses the threshold 200.  A raw
\* chunk above 200 tokens always opens a new fused chunk; [201, 10, 201]
\* tokens fuse into two chunks, and [200, 10, 200] tokens into one.
C5_Threshold200 ==
    runs > 0 =>
        \A k \in DOMAIN doc_log :
            LET raw == converted[doc_log[k].doc].outcome.chunks
                fused == doc_log[k].fused_texts
            IN /\ Len(fused) >=
                      Cardinality({j \in DOMAIN raw :
                                      get_token_count(raw[j]) > 200})
               /\ raw = <<Long201, Short10, Long201>> =>
                      fused = <<Long201 \o BlankLine \o Short10, Long201>>
               /\ raw = <<Long200, Short10, Long200>> =>
                      fused = <<Long200 \o BlankLine \o Short10
                                \o BlankLine \o Long200>>

C5_Witness ==
    /\ runs > 0
    /\ \E k \in DOMAIN doc_log :
          /\ converted[doc_log[k].doc].outcome
                = Yields(<<Long201, Short10, Long201>>)
          /\ Len(doc_log[k].fused_texts) = 2
    /\ \E k \in DOMAIN doc_log :
          /\ converted[doc_log[k].doc].outcome
                = Yields(<<Long200, Short10, Long200>>)
          /\ Len(doc_log[k].fused_texts) = 1

\* C6: applying the two substitutions of the regex cleanup to their own
\* result changes nothing.
C6_CleanupIdempotent ==
    Len(regex_out) = 2 => regex_out[2] = regex_out[1]

C6_Witness ==
    /\ regex_in = <<"-", "-", "|", " ", " ", "|">>
    /\ Len(regex_out) = 2
    /\ regex_out[1] = <<"-", "|", " ", "|">>

\* C7: whenever the constructor reaches create_tokenizer: a safetensors path
\* is loaded from the path itself; otherwise a GGUF path is loaded from its
\* parent directory and file name; otherwise no load is attempted and a
\* ValueError is raised.  At most one load is attempted, and a failed load's
\* error is raised to the caller.
C7_TokenizerResolutionOrder ==
    (constructed # "no" /\ ~InvalidPathList(arg_paths)) =>
        /\ Len(TokenizerLoads) <= 1
        /\ model_env.is_model_safetensors =>
              TokenizerLoads = <<"from_pretrained(model_path)">>
        /\ (~model_env.is_model_safetensors /\ model_env.is_model_gguf) =>
              TokenizerLoads = <<"from_pretrained(model_dir, gguf_file)">>
        /\ (~model_env.is_model_safetensors /\ ~model_env.is_model_gguf) =>
              /\ TokenizerLoads = <<>>
              /\ constructed = "raised" /\ raised = "ValueError"
              /\ tokenizer = None
        /\ (TokenizerLoads # <<>> /\ model_env.load # "ok") =>
              /\ constructed = "raised" /\ raised = model_env.load
              /\ tokenizer = None
        /\ (TokenizerLoads # <<>> /\ model_env.load = "ok") =>
              /\ constructed = "ok"
              /\ tokenizer = TokenizerLoads[1]

C7_Witness ==
    /\ constructed = "ok"
    /\ model_env.is_model_gguf /\ ~model_env.is_model_safetensors
    /\ tokenizer = "from_pretrained(model_dir, gguf_file)"
    /\ TokenizerLoads = <<"from_pretrained(model_dir, gguf_file)">>

\* C8: a document on which the HybridChunker throws contributes no final
\* chunk and the call does not raise; every document of the batch is handed
\* to the chunker in order, every document it does not throw on contributes
\* its fused and re-split chunks, and the output is the contributions in
\* document order.
C8_ChunkerExceptionIsPerDocument ==
    runs > 0 =>
        /\ ~run_raised
        /\ Len(doc_log) = Len(converted)
        /\ \A i \in DOMAIN doc_log :
              /\ doc_log[i].doc = i
              /\ converted[i].outcome.throws => doc_log[i].final_chunks = <<>>
              /\ ~converted[i].outcome.throws =>
                    doc_log[i].final_chunks =
                        chunk_markdowns(
                            fuse_texts(converted[i].outcome.chunks,
                                       chunk_documents_threshold),
                            num_chars_from_tokens(
                                num_tokens_from_words(chunk_word_count)))
        /\ all_chunks = FinalChunksFrom(doc_log, 1, DOMAIN converted)

C8_Witness ==
    /\ runs > 0
    /\ Len(converted) = 3
    /\ converted[1] = [status |-> "SUCCESS",
                       outcome |-> Yields(<<Long201, Short10, Long201>>)]
    /\ converted[2] = [status |-> "SUCCESS", outcome |-> Throws]
    /\ converted[3] = [status |-> "SUCCESS", outcome |-> Yields(<<TableRow>>)]
    /\ all_chunks = <<Long201 \o BlankLine \o Short10, Long201,
                      <<"S10", " ", "|", "-", "|">>>>

\* C9 as stated: a first chunk at or below the threshold never becomes the
\* chunk later short chunks are merged into: it stays a standalone entry.
C9_ShortFirstChunkStaysAlone ==
    (/\ fuse_done
     /\ Len(text_list) >= 2
     /\ get_token_count(text_list[1]) <= short_length_threshold)
        => fused_texts[1] = text_list[1]

\* C9 amended: the first chunk always opens the first entry of the result,
\* and whenever it is a non-empty string it is the chunk a short second chunk
\* is merged into, whatever its own token count.
C9_FirstChunkIsPredecessor ==
    (fuse_done /\ Len(text_list) >= 1) =>
        /\ fused_texts # <<>>
        /\ IsPrefix(text_list[1], fused_texts[1])
        /\ (/\ Len(text_list) >= 2
            /\ text_list[1] # <<>>
            /\ get_token_count(text_list[2]) <= short_length_threshold)
              => IsPrefix(text_list[1] \o BlankLine \o text_list[2],
                          fused_texts[1])

C9_Witness ==
    /\ fuse_done
    /\ text_list = <<<<"a">>, <<"a">>>>
    /\ short_length_threshold = 1
    /\ fused_texts = <<<<"a", "\n", "\n", "a">>>>

\* C10 as stated: constructing the instance performs no heavy side effect;
\* none happens before the first chunk_documents call.
C10_DeferredUntilFirstUse ==
    (constructed = "ok" /\ runs = 0) => effects = <<>>

\* C10 amended: the heavy side effects are performed by the constructor: on
\* a constructed instance the OCR probe, the converter construction and the
\* tokenizer load have each happened exactly once, the model download once
\* when no docling_model_path was given and never otherwise, and no number
\* of chunk_documents calls repeats any of them.
C10_EagerAndAtMostOnce ==
    /\ \A e \in {"download_models_hf", "TesseractOcrModel", "EasyOcrModel",
                 "DocumentConverter"} \cup TokenizerLoadEvents :
          Count(effects, e) <= 1
    /\ constructed = "ok" =>
          /\ Count(effects, "TesseractOcrModel") = 1
          /\ Count(effects, "DocumentConverter") = 1
          /\ Len(TokenizerLoads) = 1
          /\ Count(effects, "download_models_hf") =
                (IF arg_docling_model_path = None THEN 1 ELSE 0)

C10_Witness ==
    /\ constructed = "ok"
    /\ runs = MaxRuns
    /\ arg_docling_model_path = None
    /\ effects = <<"download_models_hf", "TesseractOcrModel",
                   "DocumentConverter", "from_pretrained(model_path)">>

====
